---- MODULE Spec2Model ----
(***************************************************************************)
(* Model of src/lib/api.js: one invocation of executeGitHubAction.  Every  *)
(* awaited call (update, merge, the octokit requests) is one step whose    *)
(* outcome, success or rejection, is chosen by the environment.  Strings   *)
(* the code inspects character by character (refs, card URLs, the          *)
(* GITHUB_REPOSITORY value) are tuples of one-character strings.           *)
(***************************************************************************)
EXTENDS Integers, Sequences, FiniteSets, TLC

VARIABLES
  eventName,                  \* argument of executeGitHubAction
  event,                      \* eventData
  config,                     \* context.config
  open,                       \* the remote: open[n] is the branch of open PR n
  pc,                         \* position of the invocation
  handler,                    \* handler executeGitHubAction dispatched to
  fn,                         \* function whose pipeline/loop is running
  error,                      \* rejection of executeGitHubAction, if any
  logs,                       \* logger.info / logger.error output
  calls,                      \* collaborator and octokit calls, in order
  branchIdx,                  \* handleStatusUpdate: index into branches
  branchName,                 \* checkPullRequestsForBranches argument
  pullRequests,               \* list being iterated
  i,                          \* index of the current item
  pullRequest,                \* PR in the pipeline
  reviews,                    \* result of getReviewsOrEmptyArray
  updated,                    \* success tally
  cards,                      \* handleScheduleTrigger: cards of the column
  pullRequestToMergeNumbers,  \* handleScheduleTrigger: filtered cards
  pullRequestsToMerge         \* handleScheduleTrigger: fetched PRs

vars == <<eventName, event, config, open, pc, handler, fn, error, logs, calls,
          branchIdx, branchName, pullRequests, i, pullRequest, reviews,
          updated, cards, pullRequestToMergeNumbers, pullRequestsToMerge>>

(***************************************************************************)
(* Bounds                                                                  *)
(***************************************************************************)
MaxListed == 3      \* most open PRs the remote has on the event's branches
MaxBranches == 2    \* longest branches list of a status event
MaxCards == 2       \* most cards in the project column
MaxAttached == 2    \* longest pull_requests list of a check payload

(***************************************************************************)
(* Program constants                                                       *)
(***************************************************************************)
\* variant: "closed" taken for a relevant action
RELEVANT_ACTIONS_withClosed ==
  {"labeled", "unlabeled", "synchronize", "opened", "edited",
   "ready_for_review", "reopened", "unlocked", "closed"}

RELEVANT_ACTIONS ==
  {"labeled", "unlabeled", "synchronize", "opened", "edited",
   "ready_for_review", "reopened", "unlocked"}

PROJECT_CARD_CONTENT_URL_LENGTH == 8

MAX_PR_COUNT == 10

\* "refs/heads/", the literal of handleBranchUpdate
BranchRefPrefix == <<"r","e","f","s","/","h","e","a","d","s","/">>

\* process.env.GITHUB_REPOSITORY, here "o/R"
GITHUB_REPOSITORY == <<"o", "/", "R">>

(***************************************************************************)
(* String functions                                                        *)
(***************************************************************************)
Min(a, b) == IF a <= b THEN a ELSE b

\* String.prototype.split(sep) for a one-character separator
RECURSIVE split(_, _)
split(s, sep) ==
  IF \A k \in 1..Len(s) : s[k] # sep
  THEN <<s>>
  ELSE LET k == CHOOSE k \in 1..Len(s) :
                  s[k] = sep /\ \A j \in 1..(k - 1) : s[j] # sep
       IN <<SubSeq(s, 1, k - 1)>> \o split(SubSeq(s, k + 1, Len(s)), sep)

\* String.prototype.split(sep, limit)
splitLimit(s, sep, limit) ==
  LET parts == split(s, sep) IN SubSeq(parts, 1, Min(limit, Len(parts)))

LowerChar(c) ==
  CASE c = "R" -> "r"
    [] c = "Q" -> "q"
    [] c = "O" -> "o"
    [] OTHER -> c

\* variant: the comparison of reduceProjectCards made case-sensitive
toLowerCase_identity(s) == s

\* String.prototype.toLowerCase
toLowerCase(s) == [k \in 1..Len(s) |-> LowerChar(s[k])]

\* variant: the prefix looked for anywhere in the string
startsWith_includes(s, p) ==
  \E k \in 0..(Len(s) - Len(p)) : SubSeq(s, k + 1, k + Len(p)) = p

\* String.prototype.startsWith
startsWith(s, p) == Len(s) >= Len(p) /\ SubSeq(s, 1, Len(p)) = p

\* String.prototype.substr(start) with a 0-based start
substr(s, start) == SubSeq(s, start + 1, Len(s))

\* helpers.getOwnerAndRepo: ok is FALSE where the code throws
getOwnerAndRepo ==
  LET parts == splitLimit(GITHUB_REPOSITORY, "/", 2)
      owner == IF Len(parts) >= 1 THEN parts[1] ELSE <<>>
      repo == IF Len(parts) >= 2 THEN parts[2] ELSE <<>>
  IN [ok |-> owner # <<>> /\ repo # <<>>, owner |-> owner, repo |-> repo]

(***************************************************************************)
(* Values                                                                  *)
(***************************************************************************)
\* A pull-request record; from tells which payload or response carried it
PR(n, from) == [number |-> n, from |-> from]

NoPR == PR(0, "none")

Err(type, message) == [type |-> type, message |-> message]

NoError == Err("none", <<>>)

Call(op, arg, ok) == [op |-> op, arg |-> arg, ok |-> ok]

\* the numbers of S, greatest first
RECURSIVE Descending(_)
Descending(S) ==
  IF S = {} THEN <<>>
  ELSE LET m == CHOOSE m \in S : \A n \in S : n <= m
       IN <<m>> \o Descending(S \ {m})

\* what the remote answers to pulls.list: the open PRs of the branch (the
\* head or the base asked for), the last updated first, cut to the page
\* size asked for; a PR with a greater number was updated later
Listing(op, branch, per_page) ==
  LET found == Descending({n \in DOMAIN op : op[n] = branch})
  IN [j \in 1..Min(Len(found), per_page) |-> PR(found[j], "list")]

\* what the remote answers to pulls.listReviews for pull request n: the
\* reviews differ from one PR to the next
RemoteReviews(n) ==
  IF n % 2 = 1
  THEN <<[state |-> "APPROVED", user |-> "alice"]>>
  ELSE <<[state |-> "CHANGES_REQUESTED", user |-> "bob"],
         [state |-> "APPROVED", user |-> "alice"]>>

\* the pull request the remote knows under the text n (0: none)
Digit(c) == CASE c = "1" -> 1 [] c = "2" -> 2 [] c = "3" -> 3 [] OTHER -> 0

PullNumber(n) == IF Len(n) = 1 THEN Digit(n[1]) ELSE 0

(***************************************************************************)
(* Inputs                                                                  *)
(***************************************************************************)
EventNames ==
  {"push", "status", "pull_request", "check_suite", "check_run",
   "pull_request_review", "schedule", "issue_comment", "issues", "release"}

RefBranch == BranchRefPrefix \o <<"m">>

Refs ==
  { RefBranch,
    BranchRefPrefix,
    <<"r","e","f","s","/","t","a","g","s","/","v">>,
    <<"r","e","f","s","/","h","e","a","d","s">>,
    <<"x">> \o RefBranch }

\* branch names "b", "bb", ...
BranchName(k) == [j \in 1..k |-> "b"]

BranchNames == {BranchName(1), BranchName(2)}

\* the branches of a status event: k distinct names, and two names in the
\* other order
BranchLists ==
  {[j \in 1..k |-> [name |-> BranchName(j)]] : k \in 0..MaxBranches}
  \cup {<<[name |-> BranchName(2)], [name |-> BranchName(1)]>>}

SeqsUpTo(S, n) == UNION {[1..k -> S] : k \in 0..n}

PushEvents == [ref : Refs]

StatusEvents ==
  [state : {"success", "pending"},
   branches : BranchLists]
  \cup [state : {"success", "pending"}]

PullRequestEvents ==
  [action : RELEVANT_ACTIONS \cup {"closed", "assigned"},
   pull_request : {PR(1, "event")}]

\* the pull_requests list of a check payload, of length k: PRs 1..k in
\* ascending or in descending order, so that the first entry is not always PR 1
AttachedLists ==
  UNION {{[j \in 1..k |-> [url |-> j, number |-> j]],
          [j \in 1..k |-> [url |-> k + 1 - j, number |-> k + 1 - j]]} :
         k \in 0..MaxAttached}

CheckPayloads ==
  [conclusion : {"success", "failure"}, pull_requests : AttachedLists,
   head_branch : BranchNames]
  \cup [conclusion : {"success", "failure"}, pull_requests : AttachedLists]

CheckSuiteEvents ==
  [action : {"completed", "requested"}, check_suite : CheckPayloads]

CheckRunEvents ==
  [action : {"completed", "created"}, check_run : CheckPayloads]

ReviewEvents ==
  [action : {"submitted", "dismissed"},
   review : [state : {"approved", "changes_requested"}],
   pull_request : {PR(1, "event")}]

IssueCommentEvents ==
  [action : {"created", "deleted"},
   issue : [number : {2}, pull_request : {[url |-> 2]}]
           \cup [number : {2}]]

NoPayload == <<>>

EventsOf(name) ==
  CASE name = "push" -> PushEvents
    [] name = "status" -> StatusEvents
    [] name = "pull_request" -> PullRequestEvents
    [] name = "check_suite" -> CheckSuiteEvents
    [] name = "check_run" -> CheckRunEvents
    [] name = "pull_request_review" -> ReviewEvents
    [] name = "issue_comment" -> IssueCommentEvents
    [] OTHER -> {NoPayload}

\* the branches whose PRs the event can make the handlers list
BranchesOf(name, ev) ==
  CASE name = "push" ->
         IF startsWith(ev.ref, BranchRefPrefix)
         THEN {substr(ev.ref, Len(BranchRefPrefix))} ELSE {}
    [] name = "status" ->
         IF "branches" \in DOMAIN ev
         THEN {ev.branches[k].name : k \in 1..Len(ev.branches)} ELSE {}
    [] name = "check_suite" ->
         IF "head_branch" \in DOMAIN ev.check_suite
         THEN {ev.check_suite.head_branch} ELSE {}
    [] name = "check_run" ->
         IF "head_branch" \in DOMAIN ev.check_run
         THEN {ev.check_run.head_branch} ELSE {}
    [] OTHER -> {}

\* the remote's open PRs 1..k, each on one of the branches
OpenPRs(branches) == UNION {[1..k -> branches] : k \in 0..MaxListed}

\* projectColumnNumber is read by handleScheduleTrigger alone: only a
\* schedule event is started with and without it
ConfigsOf(name) ==
  IF name = "schedule"
  THEN [mergeAproovedByReviewers : {<<>>, <<"alice">>}, projectColumnNumber : {7}]
       \cup [mergeAproovedByReviewers : {<<>>, <<"alice">>}]
  ELSE [mergeAproovedByReviewers : {<<>>, <<"alice">>}]

\* card content URLs: "h://g/p/<owner>/<repo>/i/<number>"
Url(owner, repo, tail) ==
  <<"h", ":", "/", "/", "g", "/", "p", "/", owner, "/", repo, "/", "i">>
  \o tail

Cards ==
  { [id |-> 1],                                               \* no content_url
    [id |-> 2, content_url |-> <<>>],                         \* ""
    [id |-> 3, content_url |-> Url("o", "r", <<"/", "1">>)],
    [id |-> 4, content_url |-> Url("o", "R", <<"/", "2">>)],
    [id |-> 5, content_url |-> Url("r", "q", <<"/", "3">>)],  \* other repo
    [id |-> 6, content_url |-> Url("o", "r", <<>>)],          \* 7 segments
    [id |-> 7, content_url |-> Url("o", "r", <<"/", "1", "/", "x">>)] }

CardLists == SeqsUpTo(Cards, MaxCards)

(***************************************************************************)
(* Initial state: executeGitHubAction has just been called                 *)
(***************************************************************************)
Init ==
  /\ eventName \in EventNames
  /\ event \in EventsOf(eventName)
  /\ config \in ConfigsOf(eventName)
  /\ open \in OpenPRs(BranchesOf(eventName, event))
  /\ pc = "executeGitHubAction"
  /\ handler = "none"
  /\ fn = "none"
  /\ error = NoError
  /\ logs = <<>>
  /\ calls = <<>>
  /\ branchIdx = 0
  /\ branchName = <<>>
  /\ pullRequests = <<>>
  /\ i = 0
  /\ pullRequest = NoPR
  /\ reviews = <<>>
  /\ updated = 0
  /\ cards = <<>>
  /\ pullRequestToMergeNumbers = <<>>
  /\ pullRequestsToMerge = <<>>

(***************************************************************************)
(* Control flow shared by the handlers                                     *)
(***************************************************************************)
Info(msg) == <<"info">> \o msg

\* the functions whose loop body sits in try { ... } catch (e) { logger.error(e) }
CatchingLoops ==
  {"checkPullRequestsForBranches", "handleBranchUpdate", "handleScheduleTrigger"}

\* variant: handleStatusUpdate stops after its first branch
Return_stops(lg) ==
  /\ logs' = lg
  /\ pc' = "done"
  /\ UNCHANGED <<branchIdx, branchName>>

\* the function returns to executeGitHubAction, or to the for loop of
\* handleStatusUpdate when branches are left
Return(lg) ==
  /\ logs' = lg
  /\ IF handler = "handleStatusUpdate" /\ branchIdx >= 1
        /\ branchIdx < Len(event.branches)
     THEN /\ branchIdx' = branchIdx + 1
          /\ branchName' = event.branches[branchIdx + 1].name
          /\ pc' = "checkPullRequestsForBranches"
     ELSE /\ pc' = "done"
          /\ UNCHANGED <<branchIdx, branchName>>

\* the log lines after the for loop of function f
AfterLoop(f, upd) ==
  IF f = "handleBranchUpdate"
  THEN IF upd > 0
       THEN <<Info(<<upd, "PRs based on branch have been updated">>)>>
       ELSE <<Info(<<"No PRs based on branch have been updated">>)>>
  ELSE IF upd = 0
       THEN <<Info(<<"No PRs have been updated/merged">>)>>
       ELSE <<>>

\* variant: the loop body leaves update out
BodyStart_noUpdate(f) == "getReviewsOrEmptyArray"

\* variant: the scheduled trigger runs the whole pipeline
BodyStart_update(f) == "update"

\* the first step of a loop body of function f
BodyStart(f) ==
  IF f = "handleScheduleTrigger" THEN "getReviewsOrEmptyArray" ELSE "update"

\* for (const pullRequest of prs): item k is next, the tally is upd
Iterate(f, prs, k, upd, lg) ==
  /\ updated' = upd
  /\ i' = k
  /\ IF k <= Len(prs)
     THEN /\ pullRequest' = prs[k]
          /\ pc' = BodyStart(f)
          /\ logs' = lg
          /\ UNCHANGED <<branchIdx, branchName>>
     ELSE /\ pullRequest' = pullRequest
          /\ Return(lg \o AfterLoop(f, upd))

\* an awaited call resolved: go on with the next statement
Continue(next) ==
  /\ pc' = next
  /\ UNCHANGED <<error, logs, i, pullRequest, updated, branchIdx, branchName>>

\* variant: the tally is not incremented
Completed_noTally ==
  /\ error' = error
  /\ IF fn \in CatchingLoops
     THEN Iterate(fn, pullRequests, i + 1, updated, logs)
     ELSE /\ pc' = "done"
          /\ UNCHANGED <<logs, i, pullRequest, updated, branchIdx, branchName>>

\* the pipeline of the current PR completed (++updated)
Completed ==
  /\ error' = error
  /\ IF fn \in CatchingLoops
     THEN Iterate(fn, pullRequests, i + 1, updated + 1, logs)
     ELSE /\ pc' = "done"
          /\ UNCHANGED <<logs, i, pullRequest, updated, branchIdx, branchName>>

\* variant: a PR whose pipeline failed is counted as well
Raise_counted(e) ==
  IF fn \in CatchingLoops
  THEN /\ error' = error
       /\ Iterate(fn, pullRequests, i + 1, updated + 1,
                  Append(logs, <<"error", e>>))
  ELSE /\ error' = e
       /\ pc' = "done"
       /\ UNCHANGED <<logs, i, pullRequest, updated, branchIdx, branchName>>

\* variant: a failure of the pipeline of a single PR is dropped
Raise_swallows(e) ==
  IF fn \in CatchingLoops
  THEN /\ error' = error
       /\ Iterate(fn, pullRequests, i + 1, updated, Append(logs, <<"error", e>>))
  ELSE /\ error' = error
       /\ pc' = "done"
       /\ UNCHANGED <<logs, i, pullRequest, updated, branchIdx, branchName>>

\* variant: no try block around the loop body
Raise_propagates(e) ==
  /\ error' = e
  /\ pc' = "done"
  /\ UNCHANGED <<logs, i, pullRequest, updated, branchIdx, branchName>>

\* e is thrown inside the pipeline of the current PR
Raise(e) ==
  IF fn \in CatchingLoops
  THEN /\ error' = error
       /\ Iterate(fn, pullRequests, i + 1, updated, Append(logs, <<"error", e>>))
  ELSE /\ error' = e
       /\ pc' = "done"
       /\ UNCHANGED <<logs, i, pullRequest, updated, branchIdx, branchName>>

\* e is thrown outside any try block: executeGitHubAction rejects with it
Reject(e, lg) ==
  /\ error' = e
  /\ pc' = "done"
  /\ logs' = lg
  /\ UNCHANGED <<fn, i, pullRequest, updated, branchIdx, branchName>>

Failed(what) == Err("Error", <<what, "failed">>)

(***************************************************************************)
(* The pipeline: update, getReviewsOrEmptyArray, merge                     *)
(***************************************************************************)
\* await update(context, pullRequest)
update ==
  /\ pc = "update"
  /\ \E ok \in BOOLEAN :
       /\ calls' = Append(calls, Call("update", pullRequest, ok))
       /\ IF ~ok THEN Raise(Failed("update"))
          ELSE IF fn = "handleBranchUpdate" THEN Completed
          ELSE Continue("getReviewsOrEmptyArray")
  /\ UNCHANGED <<eventName, event, config, open, handler, fn, pullRequests, reviews,
                 cards, pullRequestToMergeNumbers, pullRequestsToMerge>>

\* variant: the reviews are fetched whatever the allow-list holds
AllowListEmpty_never(cfg) == Len(cfg.mergeAproovedByReviewers) < 0

\* mergeAproovedByReviewers.length <= 0
AllowListEmpty(cfg) == Len(cfg.mergeAproovedByReviewers) <= 0

\* const reviews = await getReviewsOrEmptyArray(context, pullRequest.number)
getReviewsOrEmptyArray ==
  /\ pc = "getReviewsOrEmptyArray"
  /\ IF AllowListEmpty(config)
     THEN /\ reviews' = <<>>
          /\ calls' = calls
          /\ Continue("merge")
     ELSE IF ~getOwnerAndRepo.ok
     THEN /\ UNCHANGED <<reviews, calls>>
          /\ Raise(Err("Error", <<"invalid GITHUB_REPOSITORY value">>))
     ELSE \E ok \in BOOLEAN :
            /\ calls' = Append(calls,
                 Call("pulls.listReviews",
                      [owner |-> getOwnerAndRepo.owner,
                       repo |-> getOwnerAndRepo.repo,
                       pull_number |-> pullRequest.number], ok))
            /\ IF ok
               THEN /\ reviews' = RemoteReviews(pullRequest.number)
                    /\ Continue("merge")
               ELSE reviews' = reviews /\ Raise(Failed("pulls.listReviews"))
  /\ UNCHANGED <<eventName, event, config, open, handler, fn, pullRequests,
                 cards, pullRequestToMergeNumbers, pullRequestsToMerge>>

\* await merge(context, pullRequest, reviews)
merge ==
  /\ pc = "merge"
  /\ \E ok \in BOOLEAN :
       /\ calls' = Append(calls,
            Call("merge", [pullRequest |-> pullRequest, reviews |-> reviews], ok))
       /\ IF ok THEN Completed ELSE Raise(Failed("merge"))
  /\ UNCHANGED <<eventName, event, config, open, handler, fn, pullRequests, reviews,
                 cards, pullRequestToMergeNumbers, pullRequestsToMerge>>

(***************************************************************************)
(* executeGitHubAction and the handlers                                    *)
(***************************************************************************)
\* the handler returns without starting anything
Ignore(lg) ==
  /\ pc' = "done"
  /\ logs' = lg
  /\ UNCHANGED <<error, fn, i, pullRequest, updated, branchIdx, branchName>>

\* handler f starts the pipeline on pr
Enter(f, pr, lg) ==
  /\ fn' = f
  /\ pullRequest' = pr
  /\ pc' = "update"
  /\ logs' = lg
  /\ UNCHANGED <<error, i, updated, branchIdx, branchName>>

\* variant: check_run left out of the chain
HandlerOf_noCheckRun(name) ==
  CASE name = "push" -> "handleBranchUpdate"
    [] name = "status" -> "handleStatusUpdate"
    [] name = "pull_request" -> "handlePullRequestUpdate"
    [] name = "check_suite" -> "handleCheckUpdate"
    [] name = "pull_request_review" -> "handlePullRequestReviewUpdate"
    [] name = "schedule" -> "handleScheduleTrigger"
    [] name = "issue_comment" -> "handleIssueComment"
    [] OTHER -> "none"

\* the if / else if chain of executeGitHubAction
HandlerOf(name) ==
  CASE name = "push" -> "handleBranchUpdate"
    [] name = "status" -> "handleStatusUpdate"
    [] name = "pull_request" -> "handlePullRequestUpdate"
    [] name = "check_suite" \/ name = "check_run" -> "handleCheckUpdate"
    [] name = "pull_request_review" -> "handlePullRequestReviewUpdate"
    [] name = "schedule" -> "handleScheduleTrigger"
    [] name = "issue_comment" -> "handleIssueComment"
    [] OTHER -> "none"

executeGitHubAction ==
  /\ pc = "executeGitHubAction"
  /\ logs' = Append(logs, Info(<<"Event name:", eventName>>))
  /\ IF HandlerOf(eventName) # "none"
     THEN /\ handler' = HandlerOf(eventName)
          /\ pc' = HandlerOf(eventName)
          /\ error' = error
     ELSE /\ handler' = handler
          /\ pc' = "done"
          /\ error' = Err("ClientError", <<"invalid event type: ", eventName>>)
  /\ UNCHANGED <<eventName, event, config, open, fn, calls, branchIdx, branchName,
                 pullRequests, i, pullRequest, reviews, updated, cards,
                 pullRequestToMergeNumbers, pullRequestsToMerge>>

handlePullRequestUpdate ==
  /\ pc = "handlePullRequestUpdate"
  /\ IF event.action \notin RELEVANT_ACTIONS
     THEN Ignore(Append(logs, Info(<<"Action ignored:", eventName, event.action>>)))
     ELSE Enter("handlePullRequestUpdate", event.pull_request, logs)
  /\ UNCHANGED <<eventName, event, config, open, handler, calls, pullRequests,
                 reviews, cards, pullRequestToMergeNumbers,
                 pullRequestsToMerge>>

\* variant: the review state is not looked at
ReviewApproved_any(review) == TRUE

\* review.state === "approved"
ReviewApproved(review) == review.state = "approved"

handlePullRequestReviewUpdate ==
  /\ pc = "handlePullRequestReviewUpdate"
  /\ IF event.action = "submitted"
     THEN IF ReviewApproved(event.review)
          THEN Enter("handlePullRequestReviewUpdate", event.pull_request, logs)
          ELSE Ignore(logs \o
                 <<Info(<<"Review state is not approved:", event.review.state>>),
                   Info(<<"Action ignored:", eventName, event.action>>)>>)
     ELSE Ignore(Append(logs, Info(<<"Action ignored:", eventName, event.action>>)))
  /\ UNCHANGED <<eventName, event, config, open, handler, calls, pullRequests,
                 reviews, cards, pullRequestToMergeNumbers,
                 pullRequestsToMerge>>

\* the resource octokit.request(url) dereferences
Resource(url) == PR(url, "request")

\* payload.pull_requests[0] != null
HasAttached(payload) == Len(payload.pull_requests) >= 1

\* variant: the last attached PR taken instead of the first
checkPullRequest_last(payload) ==
  payload.pull_requests[Len(payload.pull_requests)]

\* const checkPullRequest = payload.pull_requests[0]
checkPullRequest(payload) == payload.pull_requests[1]

handleCheckUpdate ==
  /\ pc = "handleCheckUpdate"
  /\ LET payload == IF eventName = "check_suite"
                    THEN event.check_suite ELSE event.check_run
         ok_log == Append(logs, Info(<<"Status check completed successfully">>))
     IN
     IF event.action # "completed"
     THEN /\ Ignore(Append(logs,
                 Info(<<"A status check is not yet complete:", eventName>>)))
          /\ calls' = calls
     ELSE IF payload.conclusion # "success"
     THEN /\ Ignore(Append(logs,
                 Info(<<"A status check completed unsuccessfully:", eventName>>)))
          /\ calls' = calls
     ELSE IF HasAttached(payload)
     THEN \E ok \in BOOLEAN :
            /\ calls' = Append(calls,
                 Call("octokit.request", checkPullRequest(payload).url, ok))
            /\ IF ok
               THEN Enter("handleCheckUpdate",
                          Resource(checkPullRequest(payload).url), ok_log)
               ELSE Reject(Failed("octokit.request"), ok_log)
     ELSE IF "head_branch" \in DOMAIN payload
     THEN /\ pc' = "checkPullRequestsForBranches"
          /\ branchName' = payload.head_branch
          /\ logs' = ok_log
          /\ calls' = calls
          /\ UNCHANGED <<error, fn, i, pullRequest, updated, branchIdx>>
     ELSE /\ Ignore(Append(ok_log,
                 Info(<<"Could not find branch name in this status check result">>)))
          /\ calls' = calls
  /\ UNCHANGED <<eventName, event, config, open, handler, pullRequests, reviews,
                 cards, pullRequestToMergeNumbers, pullRequestsToMerge>>

handleStatusUpdate ==
  /\ pc = "handleStatusUpdate"
  /\ IF event.state # "success"
     THEN Ignore(Append(logs, Info(<<"Event state ignored:", eventName, event.state>>)))
     ELSE IF "branches" \notin DOMAIN event \/ Len(event.branches) = 0
     THEN Ignore(Append(logs, Info(<<"No branches have been referenced:", eventName>>)))
     ELSE /\ branchIdx' = 1
          /\ branchName' = event.branches[1].name
          /\ pc' = "checkPullRequestsForBranches"
          /\ UNCHANGED <<error, logs, fn, i, pullRequest, updated>>
  /\ UNCHANGED <<eventName, event, config, open, handler, calls, pullRequests,
                 reviews, cards, pullRequestToMergeNumbers,
                 pullRequestsToMerge>>

\* variant: the PRs are always looked up by their base branch
ListParams_byBase(filter, branch) ==
  [filter |-> "base", branch |-> branch, state |-> "open", sort |-> "updated",
   direction |-> "desc", per_page |-> MAX_PR_COUNT]

\* variant: the page size is left to the remote's default
ListParams_defaultPage(filter, branch) ==
  [filter |-> filter, branch |-> branch, state |-> "open", sort |-> "updated",
   direction |-> "desc", per_page |-> 30]

\* the parameters of both octokit.pulls.list calls
ListParams(filter, branch) ==
  [filter |-> filter, branch |-> branch, state |-> "open", sort |-> "updated",
   direction |-> "desc", per_page |-> MAX_PR_COUNT]

checkPullRequestsForBranches ==
  /\ pc = "checkPullRequestsForBranches"
  /\ \E ok \in BOOLEAN :
       /\ calls' = Append(calls,
            Call("pulls.list", ListParams("head", branchName), ok))
       /\ IF ok
          THEN /\ fn' = "checkPullRequestsForBranches"
               /\ pullRequests' = Listing(open, branchName,
                                          ListParams("head", branchName).per_page)
               /\ error' = error
               /\ Iterate("checkPullRequestsForBranches",
                          Listing(open, branchName,
                                  ListParams("head", branchName).per_page),
                          1, 0, logs)
          ELSE /\ pullRequests' = pullRequests
               /\ Reject(Failed("pulls.list"), logs)
  /\ UNCHANGED <<eventName, event, config, open, handler, reviews, cards,
                 pullRequestToMergeNumbers, pullRequestsToMerge>>

handleBranchUpdate ==
  /\ pc = "handleBranchUpdate"
  /\ IF ~startsWith(event.ref, BranchRefPrefix)
     THEN /\ Ignore(Append(logs, Info(<<"Push does not reference a branch:", event.ref>>)))
          /\ UNCHANGED <<calls, pullRequests>>
     ELSE \E ok \in BOOLEAN :
            LET branch == substr(event.ref, 11)
                listed == Listing(open, branch, ListParams("base", branch).per_page)
            IN
            /\ calls' = Append(calls,
                 Call("pulls.list", ListParams("base", branch), ok))
            /\ IF ~ok
               THEN /\ pullRequests' = pullRequests
                    /\ Reject(Failed("pulls.list"), logs)
               ELSE /\ pullRequests' = listed
                    /\ IF Len(listed) > 0
                       THEN /\ fn' = "handleBranchUpdate"
                            /\ error' = error
                            /\ Iterate("handleBranchUpdate", listed, 1, 0,
                                 Append(logs, Info(<<"Open PRs:", Len(listed)>>)))
                       ELSE Ignore(Append(logs, Info(<<"No open PRs for", branch>>)))
  /\ UNCHANGED <<eventName, event, config, open, handler, reviews, cards,
                 pullRequestToMergeNumbers, pullRequestsToMerge>>

\* variant: a comment on a plain issue not told apart
NotOnPullRequest_never(issue) == FALSE

\* issue.pull_request == null
NotOnPullRequest(issue) == "pull_request" \notin DOMAIN issue

handleIssueComment ==
  /\ pc = "handleIssueComment"
  /\ IF event.action # "created"
     THEN /\ Ignore(Append(logs, Info(<<"Action ignored:", eventName, event.action>>)))
          /\ calls' = calls
     ELSE IF NotOnPullRequest(event.issue)
     THEN /\ Ignore(Append(logs, Info(<<"Comment not on a PR, skipping">>)))
          /\ calls' = calls
     ELSE \E ok \in BOOLEAN :
            /\ calls' = Append(calls,
                 Call("pulls.get", [pull_number |-> event.issue.number], ok))
            /\ IF ok
               THEN Enter("handleIssueComment",
                          PR(event.issue.number, "get"), logs)
               ELSE Reject(Failed("pulls.get"), logs)
  /\ UNCHANGED <<eventName, event, config, open, handler, pullRequests, reviews,
                 cards, pullRequestToMergeNumbers, pullRequestsToMerge>>

(***************************************************************************)
(* The schedule handler                                                    *)
(***************************************************************************)
\* variant: a card with a malformed reference is skipped
reduceProjectCards_lenient(acc, card) ==
  IF "content_url" \notin DOMAIN card \/ card.content_url = <<>>
  THEN [ok |-> TRUE, acc |-> acc, err |-> NoError]
  ELSE
    LET splittedUrl == split(card.content_url, "/") IN
    IF Len(splittedUrl) # PROJECT_CARD_CONTENT_URL_LENGTH
    THEN [ok |-> TRUE, acc |-> acc, err |-> NoError]
    ELSE
      LET pullRequestRepo == splittedUrl[Len(splittedUrl) - 2] IN
      IF ~getOwnerAndRepo.ok
      THEN [ok |-> FALSE, acc |-> acc,
            err |-> Err("Error", <<"invalid GITHUB_REPOSITORY value">>)]
      ELSE IF toLowerCase(getOwnerAndRepo.repo) # toLowerCase(pullRequestRepo)
      THEN [ok |-> TRUE, acc |-> acc, err |-> NoError]
      ELSE [ok |-> TRUE, acc |-> Append(acc, splittedUrl[Len(splittedUrl)]),
            err |-> NoError]

\* reduceProjectCards(acc, card): ok is FALSE where the code throws err.
\* Its logger.info lines are not modelled.
reduceProjectCards(acc, card) ==
  IF "content_url" \notin DOMAIN card \/ card.content_url = <<>>
  THEN [ok |-> TRUE, acc |-> acc, err |-> NoError]
  ELSE
    LET splittedUrl == split(card.content_url, "/") IN
    IF Len(splittedUrl) # PROJECT_CARD_CONTENT_URL_LENGTH
    THEN [ok |-> FALSE, acc |-> acc,
          err |-> Err("Error", <<"Unexpected URL format">>)]
    ELSE
      LET pullRequestRepo == splittedUrl[Len(splittedUrl) - 2] IN
      IF ~getOwnerAndRepo.ok
      THEN [ok |-> FALSE, acc |-> acc,
            err |-> Err("Error", <<"invalid GITHUB_REPOSITORY value">>)]
      ELSE IF toLowerCase(getOwnerAndRepo.repo) # toLowerCase(pullRequestRepo)
      THEN [ok |-> TRUE, acc |-> acc, err |-> NoError]
      ELSE [ok |-> TRUE, acc |-> Append(acc, splittedUrl[Len(splittedUrl)]),
            err |-> NoError]

\* cs.reduce(reduceProjectCards, acc)
RECURSIVE reduce(_, _)
reduce(cs, acc) ==
  IF cs = <<>>
  THEN [ok |-> TRUE, acc |-> acc, err |-> NoError]
  ELSE LET r == reduceProjectCards(acc, Head(cs)) IN
       IF r.ok THEN reduce(Tail(cs), r.acc) ELSE r

UndefinedColumn ==
  Err("Error", <<"Project column number is undefined. Skipping scheduled job.">>)

\* variant: the column is not checked
ColumnUndefined_never(cfg) == FALSE

\* typeof projectColumnNumber === 'undefined'
ColumnUndefined(cfg) == "projectColumnNumber" \notin DOMAIN cfg

\* the value destructured from context.config
projectColumnNumber(cfg) ==
  IF "projectColumnNumber" \in DOMAIN cfg
  THEN cfg.projectColumnNumber ELSE "undefined"

\* up to the first fetchPullRequest
handleScheduleTrigger ==
  /\ pc = "handleScheduleTrigger"
  /\ IF ColumnUndefined(config)
     THEN /\ Reject(UndefinedColumn, logs)
          /\ UNCHANGED <<calls, cards, pullRequests, pullRequestToMergeNumbers>>
     ELSE \E ok \in BOOLEAN, listed \in CardLists :
            LET r == reduce(listed, <<>>) IN
            /\ calls' = Append(calls,
                 Call("projects.listCards",
                      [column_id |-> projectColumnNumber(config)], ok))
            /\ IF ~ok
               THEN /\ Reject(Failed("projects.listCards"), logs)
                    /\ UNCHANGED <<cards, pullRequests, pullRequestToMergeNumbers>>
               ELSE
                 /\ cards' = listed
                 /\ IF Len(listed) = 0
                    THEN /\ Ignore(Append(logs,
                                Info(<<"Ready to merge column doesn't have any issues.">>)))
                         /\ UNCHANGED <<pullRequests, pullRequestToMergeNumbers>>
                    ELSE IF ~r.ok
                    THEN /\ Reject(r.err, logs)
                         /\ UNCHANGED <<pullRequests, pullRequestToMergeNumbers>>
                    ELSE
                      /\ pullRequestToMergeNumbers' = r.acc
                      /\ fn' = "handleScheduleTrigger"
                      /\ error' = error
                      /\ pullRequests' = pullRequests
                      /\ IF Len(r.acc) > 0
                         THEN /\ pc' = "fetchPullRequest"
                              /\ UNCHANGED <<logs, i, pullRequest, updated,
                                             branchIdx, branchName>>
                         ELSE Iterate("handleScheduleTrigger", <<>>, 1, 0, logs)
  /\ UNCHANGED <<eventName, event, config, open, handler, reviews,
                 pullRequestsToMerge>>

\* one turn of the loop around fetchPullRequest, which no try block guards
fetchPullRequest ==
  /\ pc = "fetchPullRequest"
  /\ LET pullRequestNumber ==
           pullRequestToMergeNumbers[Len(pullRequestsToMerge) + 1]
     IN
     IF ~getOwnerAndRepo.ok
     THEN /\ Reject(Err("Error", <<"invalid GITHUB_REPOSITORY value">>), logs)
          /\ UNCHANGED <<calls, pullRequests, pullRequestsToMerge>>
     ELSE \E ok \in BOOLEAN :
            \* the remote has no pull request under an unknown number
            /\ ok => PullNumber(pullRequestNumber) # 0
            /\ calls' = Append(calls,
                 Call("pulls.get",
                      [owner |-> getOwnerAndRepo.owner,
                       repo |-> getOwnerAndRepo.repo,
                       pull_number |-> pullRequestNumber], ok))
            /\ IF ~ok
               THEN /\ Reject(Failed("pulls.get"), logs)
                    /\ UNCHANGED <<pullRequests, pullRequestsToMerge>>
               ELSE
                 LET fetched == Append(pullRequestsToMerge,
                                  PR(PullNumber(pullRequestNumber), "get"))
                 IN
                 /\ pullRequestsToMerge' = fetched
                 /\ error' = error
                 /\ fn' = fn
                 /\ IF Len(fetched) < Len(pullRequestToMergeNumbers)
                    THEN /\ pc' = "fetchPullRequest"
                         /\ UNCHANGED <<pullRequests, logs, i, pullRequest,
                                        updated, branchIdx, branchName>>
                    ELSE /\ pullRequests' = fetched
                         /\ Iterate("handleScheduleTrigger", fetched, 1, 0, logs)
  /\ UNCHANGED <<eventName, event, config, open, handler, reviews, cards,
                 pullRequestToMergeNumbers>>

(***************************************************************************)
(* Specification                                                           *)
(***************************************************************************)
Next ==
  \/ executeGitHubAction
  \/ handleBranchUpdate
  \/ handleStatusUpdate
  \/ handlePullRequestUpdate
  \/ handleCheckUpdate
  \/ handlePullRequestReviewUpdate
  \/ handleScheduleTrigger
  \/ handleIssueComment
  \/ checkPullRequestsForBranches
  \/ fetchPullRequest
  \/ update
  \/ getReviewsOrEmptyArray
  \/ merge

Spec == Init /\ [][Next]_vars

(***************************************************************************)
(* A branch with more open PRs than one page of pulls.list holds: a push   *)
(* to it, or a successful status of a commit on it                         *)
(***************************************************************************)
InitPaging ==
  /\ eventName \in {"push", "status"}
  /\ event = IF eventName = "push"
             THEN [ref |-> RefBranch]
             ELSE [state |-> "success", branches |-> <<[name |-> <<"m">>]>>]
  /\ config = [mergeAproovedByReviewers |-> <<>>]
  /\ open = [n \in 1..(MAX_PR_COUNT + 1) |-> <<"m">>]
  /\ pc = "executeGitHubAction"
  /\ handler = "none"
  /\ fn = "none"
  /\ error = NoError
  /\ logs = <<>>
  /\ calls = <<>>
  /\ branchIdx = 0
  /\ branchName = <<>>
  /\ pullRequests = <<>>
  /\ i = 0
  /\ pullRequest = NoPR
  /\ reviews = <<>>
  /\ updated = 0
  /\ cards = <<>>
  /\ pullRequestToMergeNumbers = <<>>
  /\ pullRequestsToMerge = <<>>

\* the steps a push or a status event takes
NextPaging ==
  \/ executeGitHubAction
  \/ handleBranchUpdate
  \/ handleStatusUpdate
  \/ checkPullRequestsForBranches
  \/ update
  \/ getReviewsOrEmptyArray
  \/ merge

SpecPaging == InitPaging /\ [][NextPaging]_vars

(***************************************************************************)
(* Reading the call history                                                *)
(***************************************************************************)
Ops(op) == SelectSeq(calls, LAMBDA c : c.op = op)

Count(op) == Len(Ops(op))

Args(cs) == [k \in 1..Len(cs) |-> cs[k].arg]

Last(s) == s[Len(s)]

\* the position of the last pulls.list call (0: none)
LastList ==
  IF Count("pulls.list") = 0 THEN 0
  ELSE CHOOSE k \in 1..Len(calls) :
         calls[k].op = "pulls.list"
         /\ \A j \in (k + 1)..Len(calls) : calls[j].op # "pulls.list"

\* the calls of the current pass, those after the last pulls.list call
SinceList == SubSeq(calls, LastList + 1, Len(calls))

UpdatesSinceList ==
  Args(SelectSeq(SinceList, LAMBDA c : c.op = "update"))

\* the listing the current pass iterates was answered
ListAnswered == LastList # 0 /\ calls[LastList].ok

\* how many items of the list have had their pipeline started
Started ==
  IF pc = "update" THEN i - 1
  ELSE IF pc \in {"getReviewsOrEmptyArray", "merge"} THEN i
  ELSE Len(pullRequests)

(***************************************************************************)
(* C1: in checkPullRequestsForBranches, whatever update, the review fetch  *)
(* and merge do, the updates attempted so far are exactly the listed PRs   *)
(* up to the current one, each once and in order; once the pass is over    *)
(* every listed PR has been attempted, and no error has been raised.       *)
(***************************************************************************)
C1_HeadBatchAttemptsEveryPR ==
  (fn = "checkPullRequestsForBranches" /\ ListAnswered) =>
    /\ UpdatesSinceList = SubSeq(pullRequests, 1, Started)
    /\ error = NoError

\* a pass over two PRs in which every update failed, ended without error
C1_Witness ==
  /\ pc = "done"
  /\ fn = "checkPullRequestsForBranches"
  /\ Len(pullRequests) = 2
  /\ Count("update") = 2
  /\ \A k \in 1..Len(calls) : calls[k].op = "update" => ~calls[k].ok
  /\ error = NoError

(***************************************************************************)
(* C2: in a schedule event, a remote failure on one PR of the column       *)
(* (fetching it, fetching its reviews, merging it) leaves every other PR   *)
(* of the column with a merge attempt once the handler has ended.          *)
(***************************************************************************)
\* a remote call about pull request n failed
FailureOn(n) ==
  \E k \in 1..Len(calls) :
    /\ ~calls[k].ok
    /\ \/ calls[k].op = "pulls.get" /\ PullNumber(calls[k].arg.pull_number) = n
       \/ calls[k].op = "pulls.listReviews" /\ calls[k].arg.pull_number = n
       \/ calls[k].op = "merge" /\ calls[k].arg.pullRequest.number = n

MergeAttemptedOn(n) ==
  \E k \in 1..Len(calls) :
    calls[k].op = "merge" /\ calls[k].arg.pullRequest.number = n

C2_ScheduleIsolation ==
  (pc = "done" /\ handler = "handleScheduleTrigger"
     /\ Len(pullRequestToMergeNumbers) > 0) =>
    \A k \in 1..Len(pullRequestToMergeNumbers) :
      LET n == PullNumber(pullRequestToMergeNumbers[k]) IN
      ~FailureOn(n) => MergeAttemptedOn(n)

(***************************************************************************)
(* C3: for a push on a branch ref, the updates attempted are exactly the   *)
(* PRs the base listing returned, each once and in order, whether or not   *)
(* earlier updates failed; merge and the review listing are never called;  *)
(* the count reported at the end is the number of updates that succeeded.  *)
(***************************************************************************)
OkUpdates == Len(SelectSeq(calls, LAMBDA c : c.op = "update" /\ c.ok))

C3_PushUpdatesOnly ==
  handler = "handleBranchUpdate" =>
    /\ Count("merge") = 0
    /\ Count("pulls.listReviews") = 0
    /\ fn = "handleBranchUpdate" =>
         /\ Args(Ops("update")) = SubSeq(pullRequests, 1, Started)
         /\ updated = OkUpdates
         /\ error = NoError
         /\ pc = "done" =>
              Last(logs) =
                IF OkUpdates > 0
                THEN <<"info", OkUpdates, "PRs based on branch have been updated">>
                ELSE <<"info", "No PRs based on branch have been updated">>

\* two PRs listed, the first update failed, the second succeeded
C3_Witness ==
  /\ pc = "done"
  /\ fn = "handleBranchUpdate"
  /\ startsWith(event.ref, BranchRefPrefix)
  /\ Len(pullRequests) = 2
  /\ Count("update") = 2
  /\ ~Ops("update")[1].ok
  /\ Ops("update")[2].ok
  /\ updated = 1

(***************************************************************************)
(* C4: a pull_request event whose action is outside the allow-list makes   *)
(* no call at all, raises nothing and logs the action as ignored; with an  *)
(* action of the list, update is invoked exactly once, on the embedded PR, *)
(* and merge at most once, on the same PR, once when no call fails.        *)
(***************************************************************************)
C4_AllowList ==
  {"labeled", "unlabeled", "synchronize", "opened", "edited",
   "ready_for_review", "reopened", "unlocked"}

C4_PullRequestActions ==
  (handler = "handlePullRequestUpdate" /\ pc # "handlePullRequestUpdate") =>
    IF event.action \notin C4_AllowList
    THEN /\ calls = <<>>
         /\ error = NoError
         /\ pc = "done"
         /\ Last(logs) = <<"info", "Action ignored:", "pull_request", event.action>>
    ELSE /\ Count("update") <= 1
         /\ pc # "update" => Args(Ops("update")) = <<event.pull_request>>
         /\ Count("merge") <= 1
         /\ \A k \in 1..Len(calls) :
              calls[k].op = "merge" =>
                calls[k].arg.pullRequest = event.pull_request
         /\ (pc = "done" /\ \A k \in 1..Len(calls) : calls[k].ok) =>
              Count("merge") = 1

\* an ignored action, handled
C4_Witness ==
  /\ eventName = "pull_request"
  /\ event.action = "closed"
  /\ pc = "done"

(***************************************************************************)
(* C5: executeGitHubAction hands each of the eight kinds to its handler,   *)
(* check_suite and check_run to the same one; any other kind is rejected   *)
(* with a ClientError naming the kind before any handler or call.          *)
(***************************************************************************)
C5_Dispatch ==
  pc # "executeGitHubAction" =>
    IF eventName \in {"push", "status", "pull_request", "check_suite",
                      "check_run", "pull_request_review", "schedule",
                      "issue_comment"}
    THEN /\ handler =
              (CASE eventName = "push" -> "handleBranchUpdate"
                 [] eventName = "status" -> "handleStatusUpdate"
                 [] eventName = "pull_request" -> "handlePullRequestUpdate"
                 [] eventName = "check_suite" -> "handleCheckUpdate"
                 [] eventName = "check_run" -> "handleCheckUpdate"
                 [] eventName = "pull_request_review" ->
                      "handlePullRequestReviewUpdate"
                 [] eventName = "schedule" -> "handleScheduleTrigger"
                 [] eventName = "issue_comment" -> "handleIssueComment")
         /\ error.type # "ClientError"
    ELSE /\ handler = "none"
         /\ fn = "none"
         /\ pc = "done"
         /\ calls = <<>>
         /\ error = Err("ClientError", <<"invalid event type: ", eventName>>)

\* an unknown kind, rejected
C5_Witness ==
  /\ eventName = "release"
  /\ pc = "done"
  /\ error.type = "ClientError"

(***************************************************************************)
(* C6: a check event, completed with success and with attached PRs, makes  *)
(* no listing call and requests the first attached PR exactly once; if the *)
(* request is answered, update runs exactly once, on the answered record,  *)
(* and merge at most once, on that record; if the request fails, the       *)
(* failure is the outcome and neither update nor merge is invoked.         *)
(***************************************************************************)
CheckPayload ==
  IF eventName = "check_suite" THEN event.check_suite ELSE event.check_run

C6_Attached ==
  /\ handler = "handleCheckUpdate"
  /\ event.action = "completed"
  /\ CheckPayload.conclusion = "success"
  /\ Len(CheckPayload.pull_requests) > 0

C6_Fetched == PR(CheckPayload.pull_requests[1].url, "request")

C6_FirstAttachedOnly ==
  (C6_Attached /\ pc # "handleCheckUpdate") =>
    /\ Count("pulls.list") = 0
    /\ Count("octokit.request") = 1
    /\ calls[1].op = "octokit.request"
    /\ calls[1].arg = CheckPayload.pull_requests[1].url
    /\ IF calls[1].ok
       THEN /\ Args(Ops("update")) =
                 (IF pc = "update" THEN <<>> ELSE <<C6_Fetched>>)
            /\ Count("merge") <= 1
            /\ \A k \in 1..Len(calls) :
                 calls[k].op = "merge" => calls[k].arg.pullRequest = C6_Fetched
            /\ (pc = "done" /\ \A k \in 1..Len(calls) : calls[k].ok) =>
                 Count("merge") = 1
       ELSE /\ Len(calls) = 1
            /\ pc = "done"
            /\ error = Failed("octokit.request")

\* the claim as stated: the pipeline has run once when the handler has ended
C6_AlwaysOnePipeline ==
  (C6_Attached /\ pc = "done") =>
    /\ Count("pulls.list") = 0
    /\ Args(Ops("update")) = <<C6_Fetched>>

\* two PRs attached and a head branch named: PR 2, the first, was merged
C6_Witness ==
  /\ C6_Attached
  /\ "head_branch" \in DOMAIN CheckPayload
  /\ Len(CheckPayload.pull_requests) = 2
  /\ CheckPayload.pull_requests[1].url = 2
  /\ pc = "done"
  /\ Count("merge") = 1
  /\ Last(calls).ok

(***************************************************************************)
(* C7: a status event whose state is not "success", or without branches,   *)
(* makes no call; one with state "success" and branches lists the PRs of   *)
(* the branches by head, one call per branch in list order, up to the      *)
(* first listing that fails, which ends the invocation with that failure.  *)
(***************************************************************************)
C7_Idle ==
  \/ event.state # "success"
  \/ "branches" \notin DOMAIN event
  \/ Len(event.branches) = 0

C7_Listed == [k \in 1..Count("pulls.list") |-> Ops("pulls.list")[k].arg.branch]

C7_Branches == [k \in 1..Len(event.branches) |-> event.branches[k].name]

C7_StatusListing ==
  handler = "handleStatusUpdate" =>
    IF C7_Idle
    THEN calls = <<>>
    ELSE /\ Count("pulls.list") <= Len(C7_Branches)
         /\ C7_Listed = SubSeq(C7_Branches, 1, Count("pulls.list"))
         /\ \A k \in 1..Count("pulls.list") :
              /\ Ops("pulls.list")[k].arg.filter = "head"
              /\ k < Count("pulls.list") => Ops("pulls.list")[k].ok
         /\ pc = "done" =>
              \/ C7_Listed = C7_Branches /\ error = NoError
              \/ /\ ~Last(Ops("pulls.list")).ok
                 /\ error = Failed("pulls.list")

\* the claim as stated: every branch has been listed when the handler ends
C7_EveryBranchListed ==
  handler = "handleStatusUpdate" =>
    IF C7_Idle
    THEN calls = <<>>
    ELSE pc = "done" => C7_Listed = C7_Branches

\* two branches, "bb" then "b", both listed
C7_Witness ==
  /\ handler = "handleStatusUpdate"
  /\ ~C7_Idle
  /\ C7_Branches = <<BranchName(2), BranchName(1)>>
  /\ C7_Listed = C7_Branches
  /\ pc = "done"

(***************************************************************************)
(* C8: a schedule event without a configured column is rejected with an    *)
(* error at once: no card listing, no PR fetch, no review listing, no      *)
(* merge.                                                                  *)
(***************************************************************************)
C8_NoColumnFailsFirst ==
  (handler = "handleScheduleTrigger"
     /\ "projectColumnNumber" \notin DOMAIN config
     /\ pc # "handleScheduleTrigger") =>
    /\ pc = "done"
    /\ calls = <<>>
    /\ error = Err("Error",
         <<"Project column number is undefined. Skipping scheduled job.">>)

C8_Witness ==
  /\ eventName = "schedule"
  /\ "projectColumnNumber" \notin DOMAIN config
  /\ pc = "done"

(***************************************************************************)
(* C9: the card filter yields, in card order, the last segment of the      *)
(* cards that have a content reference of 8 segments whose sixth segment   *)
(* is the repository name in any case; cards without a reference or of     *)
(* another repository are skipped; a reference of another number of        *)
(* segments is a fatal error.                                              *)
(***************************************************************************)
C9_HasRef(c) == "content_url" \in DOMAIN c /\ c.content_url # <<>>

C9_Segments(c) == split(c.content_url, "/")

C9_Malformed(c) == C9_HasRef(c) /\ Len(C9_Segments(c)) # 8

\* the repository is "R"
C9_Kept(c) ==
  /\ C9_HasRef(c)
  /\ Len(C9_Segments(c)) = 8
  /\ C9_Segments(c)[6] \in {<<"r">>, <<"R">>}

C9_Expected ==
  LET kept == SelectSeq(cards, C9_Kept)
  IN [k \in 1..Len(kept) |-> C9_Segments(kept[k])[8]]

C9_CardFilter ==
  (handler = "handleScheduleTrigger" /\ Len(cards) > 0) =>
    IF \E k \in 1..Len(cards) : C9_Malformed(cards[k])
    THEN /\ pc = "done"
         /\ error = Err("Error", <<"Unexpected URL format">>)
         /\ pullRequestToMergeNumbers = <<>>
         /\ Len(calls) = 1
    ELSE /\ pullRequestToMergeNumbers = C9_Expected
         /\ error.message # <<"Unexpected URL format">>

\* a card without reference or of another repository, then one of this
\* repository written in another case: only the second is kept
C9_Witness ==
  /\ Len(cards) = 2
  /\ ~C9_Kept(cards[1])
  /\ cards[2].id = 3
  /\ pullRequestToMergeNumbers = <<<<"1">>>>

(***************************************************************************)
(* C10: an issue_comment event makes no call and raises nothing unless its *)
(* action is "created" and its issue is a pull request; then the PR is     *)
(* fetched once, first, and update and merge are given the fetched record, *)
(* each at most once, both once when no call fails.                        *)
(***************************************************************************)
C10_Eligible ==
  event.action = "created" /\ "pull_request" \in DOMAIN event.issue

C10_Fetched == PR(event.issue.number, "get")

C10_IssueComment ==
  (handler = "handleIssueComment" /\ pc # "handleIssueComment") =>
    IF ~C10_Eligible
    THEN calls = <<>> /\ error = NoError /\ pc = "done"
    ELSE /\ Count("pulls.get") = 1
         /\ calls[1].op = "pulls.get"
         /\ calls[1].arg.pull_number = event.issue.number
         /\ ~calls[1].ok => Len(calls) = 1 /\ pc = "done"
         /\ Count("update") <= 1
         /\ Count("merge") <= 1
         /\ \A k \in 1..Len(calls) :
              /\ calls[k].op = "update" => calls[k].arg = C10_Fetched
              /\ calls[k].op = "merge" => calls[k].arg.pullRequest = C10_Fetched
         /\ (calls[1].ok /\ pc # "update") => Count("update") = 1
         /\ (pc = "done" /\ \A k \in 1..Len(calls) : calls[k].ok) =>
              Count("merge") = 1

\* a comment on a pull request, fetched, updated and merged
C10_Witness ==
  /\ handler = "handleIssueComment"
  /\ C10_Eligible
  /\ pc = "done"
  /\ Count("merge") = 1
  /\ Last(calls).ok

(***************************************************************************)
(* C11: a pull_request_review event makes no call and raises nothing       *)
(* unless its action is "submitted" and its review state "approved"; then  *)
(* update is invoked, once, on the embedded PR, and merge after it, once   *)
(* when no call fails.                                                     *)
(***************************************************************************)
C11_Eligible ==
  event.action = "submitted" /\ event.review.state = "approved"

C11_ReviewApproval ==
  (handler = "handlePullRequestReviewUpdate"
     /\ pc # "handlePullRequestReviewUpdate") =>
    IF ~C11_Eligible
    THEN calls = <<>> /\ error = NoError /\ pc = "done"
    ELSE /\ Args(Ops("update")) =
              (IF pc = "update" THEN <<>> ELSE <<event.pull_request>>)
         /\ Count("merge") <= 1
         /\ \A k \in 1..Len(calls) :
              calls[k].op = "merge" =>
                calls[k].arg.pullRequest = event.pull_request
         /\ (pc = "done" /\ \A k \in 1..Len(calls) : calls[k].ok) =>
              Count("merge") = 1

\* a submitted review that is not an approval, handled
C11_Witness ==
  /\ handler = "handlePullRequestReviewUpdate"
  /\ event.action = "submitted"
  /\ event.review.state = "changes_requested"
  /\ pc = "done"

(***************************************************************************)
(* C12: a push whose ref does not begin with "refs/heads/" makes no call,  *)
(* listing, update or merge, and raises nothing.                           *)
(***************************************************************************)
C12_BranchRef ==
  /\ Len(event.ref) >= 11
  /\ SubSeq(event.ref, 1, 11) =
       <<"r", "e", "f", "s", "/", "h", "e", "a", "d", "s", "/">>

C12_NonBranchPush ==
  (handler = "handleBranchUpdate" /\ ~C12_BranchRef
     /\ pc # "handleBranchUpdate") =>
    /\ calls = <<>>
    /\ error = NoError
    /\ pc = "done"

\* a ref that holds "refs/heads/" without beginning with it
C12_Witness ==
  /\ handler = "handleBranchUpdate"
  /\ ~C12_BranchRef
  /\ Len(event.ref) > 11
  /\ event.ref[1] = "x"
  /\ pc = "done"

(***************************************************************************)
(* C13: with an empty reviewer allow-list no review listing is ever called *)
(* and every merge is given the empty sequence; with a non-empty one the   *)
(* call just before each merge is the one successful review listing of the *)
(* same PR number, and merge is given what it answered; no answered        *)
(* listing is left without its merge.                                      *)
(***************************************************************************)
C13_Answered ==
  Len(SelectSeq(calls, LAMBDA c : c.op = "pulls.listReviews" /\ c.ok))

C13_ReviewGate ==
  IF config.mergeAproovedByReviewers = <<>>
  THEN /\ Count("pulls.listReviews") = 0
       /\ \A k \in 1..Len(calls) :
            calls[k].op = "merge" => calls[k].arg.reviews = <<>>
  ELSE \A k \in 1..Len(calls) :
         calls[k].op = "merge" =>
           /\ k > 1
           /\ calls[k - 1].op = "pulls.listReviews"
           /\ calls[k - 1].ok
           /\ calls[k - 1].arg.pull_number = calls[k].arg.pullRequest.number
           /\ k > 2 => ~(calls[k - 2].op = "pulls.listReviews" /\ calls[k - 2].ok)
           /\ calls[k].arg.reviews =
                RemoteReviews(calls[k].arg.pullRequest.number)
           /\ C13_Answered = Count("merge") + (IF pc = "merge" THEN 1 ELSE 0)

\* two PRs with different reviews merged one after the other
C13_Witness ==
  /\ config.mergeAproovedByReviewers # <<>>
  /\ Count("merge") = 2
  /\ Ops("merge")[1].arg.reviews # Ops("merge")[2].arg.reviews
  /\ pc = "done"

(***************************************************************************)
(* C14: a schedule invocation never invokes update; every merge is on a PR *)
(* whose number the card filter produced, and a number is merged at most   *)
(* as many times as the filter produced it (once, for a number the filter  *)
(* produced once).                                                         *)
(***************************************************************************)
C14_Produced(n) ==
  Len(SelectSeq(pullRequestToMergeNumbers, LAMBDA x : PullNumber(x) = n))

C14_MergesOn(n) ==
  Len(SelectSeq(calls, LAMBDA c : c.op = "merge" /\ c.arg.pullRequest.number = n))

C14_ScheduleMergesOnly ==
  handler = "handleScheduleTrigger" =>
    /\ Count("update") = 0
    /\ \A k \in 1..Len(calls) :
         calls[k].op = "merge" =>
           /\ C14_Produced(calls[k].arg.pullRequest.number) >= 1
           /\ C14_MergesOn(calls[k].arg.pullRequest.number)
                <= C14_Produced(calls[k].arg.pullRequest.number)

\* both PRs of a column were fetched and merged, each once
C14_Witness ==
  /\ handler = "handleScheduleTrigger"
  /\ Len(pullRequestToMergeNumbers) = 2
  /\ pullRequestToMergeNumbers[1] # pullRequestToMergeNumbers[2]
  /\ C14_MergesOn(PullNumber(pullRequestToMergeNumbers[1])) = 1
  /\ C14_MergesOn(PullNumber(pullRequestToMergeNumbers[2])) = 1
  /\ pc = "done"

(***************************************************************************)
(* C15: every pulls.list call asks for the open PRs sorted by last update, *)
(* descending, at most 10 of them, by base for a push and by head          *)
(* otherwise; the batch gets the 10 last updated open PRs of the branch at *)
(* most, newest first, and the updates attempted are the listed PRs in the *)
(* order of the listing, all of them once the handler returned.            *)
(***************************************************************************)
C15_Branch == calls[LastList].arg.branch

C15_OnBranch == {n \in DOMAIN open : open[n] = C15_Branch}

C15_Numbers == {pullRequests[k].number : k \in 1..Len(pullRequests)}

C15_Discovery ==
  /\ \A k \in 1..Len(calls) :
       calls[k].op = "pulls.list" =>
         /\ calls[k].arg.state = "open"
         /\ calls[k].arg.sort = "updated"
         /\ calls[k].arg.direction = "desc"
         /\ calls[k].arg.per_page = 10
         /\ calls[k].arg.filter =
              (IF handler = "handleBranchUpdate" THEN "base" ELSE "head")
  /\ (fn \in {"checkPullRequestsForBranches", "handleBranchUpdate"}
      /\ ListAnswered) =>
       /\ Len(pullRequests) <= 10
       /\ Len(pullRequests) = Min(Cardinality(C15_OnBranch), 10)
       /\ C15_Numbers \subseteq C15_OnBranch
       /\ \A k \in 1..(Len(pullRequests) - 1) :
            pullRequests[k].number > pullRequests[k + 1].number
       /\ \A n \in C15_OnBranch \ C15_Numbers : \A m \in C15_Numbers : n < m
       /\ Len(UpdatesSinceList) <= Len(pullRequests)
       /\ UpdatesSinceList = SubSeq(pullRequests, 1, Len(UpdatesSinceList))
       /\ pc = "done" => Len(UpdatesSinceList) = Len(pullRequests)

\* eleven open PRs on the branch: ten were listed and updated, the one
\* updated longest ago was left out
C15_Witness ==
  /\ ListAnswered
  /\ Len(pullRequests) = 10
  /\ Cardinality(C15_OnBranch) = 11
  /\ Len(UpdatesSinceList) = 10
  /\ UpdatesSinceList[1].number = 11
  /\ UpdatesSinceList[10].number = 2
  /\ pc = "done"

(***************************************************************************)
(* C16: in the pipeline on a single PR (pull_request, pull_request_review, *)
(* issue_comment, check event with an attached PR) a failed update, review *)
(* listing or merge is the last call of the invocation, which ends         *)
(* rejected with that failure: no review listing and no merge after a      *)
(* failed update, no merge after a failed review listing.                  *)
(***************************************************************************)
C16_SinglePipeline ==
  \/ handler \in {"handlePullRequestUpdate", "handlePullRequestReviewUpdate",
                  "handleIssueComment"}
  \/ C6_Attached

C16_Steps == {"update", "pulls.listReviews", "merge"}

C16_FailurePropagates ==
  C16_SinglePipeline =>
    \A k \in 1..Len(calls) :
      (calls[k].op \in C16_Steps /\ ~calls[k].ok) =>
        /\ k = Len(calls)
        /\ pc = "done"
        /\ error = [type |-> "Error", message |-> <<calls[k].op, "failed">>]
        /\ \A j \in 1..Len(calls) :
             (calls[j].op \in C16_Steps /\ j # k) => (j < k /\ calls[j].ok)
        /\ calls[k].op = "update" =>
             Count("merge") = 0 /\ Count("pulls.listReviews") = 0
        /\ calls[k].op = "pulls.listReviews" => Count("merge") = 0

\* the update of the reviewed PR succeeded, the review listing failed
C16_Witness ==
  /\ handler = "handlePullRequestReviewUpdate"
  /\ Count("update") = 1
  /\ Count("pulls.listReviews") = 1
  /\ ~Last(calls).ok
  /\ Last(calls).op = "pulls.listReviews"
  /\ Count("merge") = 0
  /\ error # NoError
  /\ pc = "done"

(***************************************************************************)
(* C17: a completed, successful check event without an attached PR.  With  *)
(* a head branch: one pulls.list call in all, by head, for that branch,    *)
(* and no other lookup; when it is answered the batch of the status        *)
(* handler runs on the listed PRs (update on each in order, merge only on  *)
(* a PR whose update succeeded, on every one when no call fails, no error  *)
(* raised); when it fails the invocation fails.  Without a head branch:    *)
(* no call at all and a return without error.                              *)
(***************************************************************************)
C17_NoAttached ==
  /\ handler = "handleCheckUpdate"
  /\ event.action = "completed"
  /\ CheckPayload.conclusion = "success"
  /\ Len(CheckPayload.pull_requests) = 0

C17_MergedPRs == [k \in 1..Count("merge") |-> Ops("merge")[k].arg.pullRequest]

C17_CheckFallback ==
  (C17_NoAttached /\ pc \notin {"handleCheckUpdate", "checkPullRequestsForBranches"}) =>
    IF "head_branch" \in DOMAIN CheckPayload
    THEN /\ Count("pulls.list") = 1
         /\ Count("octokit.request") = 0
         /\ calls[1].op = "pulls.list"
         /\ calls[1].arg.filter = "head"
         /\ calls[1].arg.branch = CheckPayload.head_branch
         /\ IF calls[1].ok
            THEN /\ C15_Numbers = {n \in DOMAIN open : open[n] = CheckPayload.head_branch}
                 /\ UpdatesSinceList = SubSeq(pullRequests, 1, Started)
                 /\ \A k \in 1..Len(calls) :
                      calls[k].op = "merge" =>
                        \E j \in 1..(k - 1) :
                          /\ calls[j].op = "update"
                          /\ calls[j].ok
                          /\ calls[j].arg = calls[k].arg.pullRequest
                 /\ (pc = "done" /\ \A k \in 1..Len(calls) : calls[k].ok) =>
                      C17_MergedPRs = pullRequests
                 /\ error = NoError
            ELSE /\ Len(calls) = 1
                 /\ pc = "done"
                 /\ error # NoError
    ELSE /\ calls = <<>>
         /\ error = NoError
         /\ pc = "done"

\* a check run on a head branch with two open PRs: one listing, both PRs
\* updated and merged
C17_Witness ==
  /\ C17_NoAttached
  /\ eventName = "check_run"
  /\ "head_branch" \in DOMAIN CheckPayload
  /\ Count("pulls.list") = 1
  /\ Count("update") = 2
  /\ Count("merge") = 2
  /\ pc = "done"

(***************************************************************************)
(* C18: the calls of a batch pass are totally ordered, one PR after the    *)
(* other in the order of the list: the pass starts with update on the      *)
(* first PR; a call is followed either by the next step on the same PR     *)
(* (update, then the review listing, then merge), and only when it         *)
(* succeeded, or by update on the next PR of the list, and only when the   *)
(* pipeline of the current PR has completed or failed.                     *)
(***************************************************************************)
C18_Number(c) ==
  CASE c.op = "update" -> c.arg.number
    [] c.op = "pulls.listReviews" -> c.arg.pull_number
    [] c.op = "merge" -> c.arg.pullRequest.number

C18_Rank(c) ==
  CASE c.op = "update" -> 1
    [] c.op = "pulls.listReviews" -> 2
    [] c.op = "merge" -> 3

\* the place of PR number n in the list
C18_Index(n) ==
  IF \E k \in 1..Len(pullRequests) : pullRequests[k].number = n
  THEN CHOOSE k \in 1..Len(pullRequests) : pullRequests[k].number = n
  ELSE 0

\* the pipeline that call c belongs to is over with c
C18_Ends(c) ==
  \/ ~c.ok
  \/ c.op = "merge"
  \/ c.op = "update" /\ fn = "handleBranchUpdate"

C18_Sequential ==
  (fn \in {"checkPullRequestsForBranches", "handleBranchUpdate"} /\ ListAnswered) =>
    /\ \A k \in 1..Len(SinceList) :
         /\ SinceList[k].op \in {"update", "pulls.listReviews", "merge"}
         /\ C18_Index(C18_Number(SinceList[k])) >= 1
    /\ SinceList # <<>> =>
         SinceList[1].op = "update" /\ SinceList[1].arg = pullRequests[1]
    /\ \A k \in 1..(Len(SinceList) - 1) :
         LET a == SinceList[k]
             b == SinceList[k + 1]
         IN \/ /\ C18_Number(b) = C18_Number(a)
               /\ a.ok
               /\ ~C18_Ends(a)
               /\ C18_Rank(b) > C18_Rank(a)
               /\ b.op = "merge" \/ C18_Rank(b) = C18_Rank(a) + 1
            \/ /\ C18_Index(C18_Number(b)) = C18_Index(C18_Number(a)) + 1
               /\ C18_Ends(a)
               /\ b.op = "update"
    /\ pc \in {"update", "getReviewsOrEmptyArray", "merge"} =>
         /\ pullRequest = pullRequests[i]
         /\ SinceList # <<>> =>
              C18_Index(C18_Number(Last(SinceList))) =
                (IF pc = "update" THEN i - 1 ELSE i)

\* two PRs of a head branch, each updated, its reviews listed, then merged
C18_Witness ==
  /\ fn = "checkPullRequestsForBranches"
  /\ Len(SinceList) = 6
  /\ [k \in 1..6 |-> SinceList[k].op] =
       <<"update", "pulls.listReviews", "merge",
         "update", "pulls.listReviews", "merge">>
  /\ C18_Number(SinceList[3]) # C18_Number(SinceList[4])
  /\ pc = "done"

(***************************************************************************)
(* C19: in a pass of checkPullRequestsForBranches a PR whose update failed *)
(* gets no review listing and no merge, and the tally counts the PRs whose *)
(* update and merge both succeeded, no others.                             *)
(***************************************************************************)
C19_UpdateFailed(n) ==
  \E k \in 1..Len(SinceList) :
    SinceList[k].op = "update" /\ ~SinceList[k].ok /\ SinceList[k].arg.number = n

C19_Succeeded(op, n) ==
  \E k \in 1..Len(SinceList) :
    SinceList[k].op = op /\ SinceList[k].ok /\ C18_Number(SinceList[k]) = n

C19_Tallied ==
  {n \in C15_Numbers : C19_Succeeded("update", n) /\ C19_Succeeded("merge", n)}

C19_HeadBatchTally ==
  (fn = "checkPullRequestsForBranches" /\ ListAnswered) =>
    /\ \A k \in 1..Len(SinceList) :
         SinceList[k].op \in {"pulls.listReviews", "merge"} =>
           ~C19_UpdateFailed(C18_Number(SinceList[k]))
    /\ updated = Cardinality(C19_Tallied)
    /\ updated = Len(SelectSeq(SinceList, LAMBDA c : c.op = "merge" /\ c.ok))

\* the update of the first PR failed, the second PR was updated and merged
C19_Witness ==
  /\ fn = "checkPullRequestsForBranches"
  /\ Len(pullRequests) = 2
  /\ C19_UpdateFailed(pullRequests[1].number)
  /\ C19_Tallied = {pullRequests[2].number}
  /\ updated = 1
  /\ pc = "done"

(***************************************************************************)
(* C20: in a schedule invocation every pulls.get call comes before every   *)
(* review listing and every merge; a PR is fetched only when the whole     *)
(* column has been filtered, the numbers fetched being the first ones of   *)
(* the filtered column, in order; a merge is attempted only when every     *)
(* filtered number has been fetched.  With a malformed reference anywhere  *)
(* in the column the invocation fails with "Unexpected URL format", no PR  *)
(* fetched and no merge attempted.                                         *)
(***************************************************************************)
C20_AnyMalformed == \E k \in 1..Len(cards) : C9_Malformed(cards[k])

C20_FetchedNumbers ==
  [k \in 1..Count("pulls.get") |-> Ops("pulls.get")[k].arg.pull_number]

C20_Fetches == Len(SelectSeq(calls, LAMBDA c : c.op = "pulls.get" /\ c.ok))

C20_SchedulePhases ==
  handler = "handleScheduleTrigger" =>
    /\ \A j, k \in 1..Len(calls) :
         (calls[j].op = "pulls.get" /\ calls[k].op \in {"pulls.listReviews", "merge"})
           => j < k
    /\ Count("pulls.get") > 0 =>
         /\ ~C20_AnyMalformed
         /\ Count("pulls.get") <= Len(C9_Expected)
         /\ C20_FetchedNumbers = SubSeq(C9_Expected, 1, Count("pulls.get"))
    /\ Count("pulls.listReviews") + Count("merge") > 0 =>
         /\ C20_Fetches = Len(C9_Expected)
         /\ C20_Fetches = Count("pulls.get")
    /\ C20_AnyMalformed =>
         /\ Count("pulls.get") = 0
         /\ Count("pulls.listReviews") = 0
         /\ Count("merge") = 0
         /\ pc = "done"
         /\ error = [type |-> "Error", message |-> <<"Unexpected URL format">>]

\* a card of this repository, then a card of seven segments: nothing fetched
C20_Witness ==
  /\ handler = "handleScheduleTrigger"
  /\ Len(cards) = 2
  /\ C9_Kept(cards[1])
  /\ C9_Malformed(cards[2])
  /\ Count("pulls.get") = 0
  /\ Count("merge") = 0
  /\ error.message = <<"Unexpected URL format">>
  /\ pc = "done"

====
